---- MODULE Spec2Model ----
\* Model of mini-redis: the chained hash table of src/hash_table.c
\* (ht_create, ht_resize, ht_set, ht_get, ht_delete) with its incremental
\* memory accounting, the command interpreter process_command and the
\* connection and accept loops of src/engine/server.c.  C strings are
\* sequences of byte values 1..255; a chain of HashEntry nodes linked by
\* `next' is the sequence of its nodes, head first.
EXTENDS Integers, Sequences, FiniteSets, TLC

\* the store and the build's char signedness; `live' and `last' observe the
\* calls made on the store
VARIABLES buckets, num_buckets, num_entries, memory_used, char_signed, live, last

\* observers of the interpreter: the live keys in the order their entries
\* were created, and for every bucket the keys in the order they were linked
\* into it
VARIABLES inserted, linked

\* the globals of server.c, the place the main thread is at, the connection
\* it serves and the connections of the clients
VARIABLES g_running, g_server_socket, g_hash_table, pc, client_socket, conns

storeVars == <<buckets, num_buckets, num_entries, memory_used>>

observerVars == <<inserted, linked>>

serverVars == <<g_running, g_server_socket, g_hash_table, pc, client_socket,
                conns>>

vars == <<buckets, num_buckets, num_entries, memory_used, char_signed, live,
          last, inserted, linked, g_running, g_server_socket, g_hash_table,
          pc, client_socket, conns>>

\* ---------------------------------------------------------------------------
\* Program constants (src/mini_redis.h) and LP64 object sizes
\* ---------------------------------------------------------------------------
INITIAL_BUCKETS == 64
MAX_KEY_SIZE == 256
BUFFER_SIZE == 8192
MAX_VALUE_SIZE == 4096
\* sizeof(HashTable): one pointer and three size_t
SizeofHashTable == 32
\* sizeof(HashEntry): two pointers, two size_t, one pointer
SizeofHashEntry == 40
\* sizeof(HashEntry *)
SizeofPtr == 8

\* ---------------------------------------------------------------------------
\* Bounds of the model
\* ---------------------------------------------------------------------------
\* number of distinct short keys the clients use
MaxKeys == 3

\* "a", "e", 0xE2, "ae", "i".  "a" and "e" share a bucket for every bucket
\* count up to 4 and 0xE2 leaves them when the count reaches 2; 0xE2 is a
\* byte that a signed char holds as a negative number.
KeyPool == << <<97>>, <<101>>, <<226>>, <<97, 101>>, <<105>> >>

Keys == {KeyPool[i] : i \in 1..MaxKeys}
\* the values the clients store: "x" and "yz", of different lengths
Values == {<<120>>, <<121, 122>>}

\* number of clients that connect
MaxClients == 2

\* the descriptor socket() returns for the listening socket
ListenFd == 3

\* length of the longest key hash_djb2 is applied to on its own
MaxHashLen == 3

\* number of command lines of LinePool the clients send
MaxLines == 25

\* number of keys the filling client sets, one after the other
MaxFill == 50

\* the keys of the filling client: 'k' and two decimal digits
FillKey(i) == <<107, 48 + (i \div 10), 48 + (i % 10)>>

\* number of keys of MAX_KEY_SIZE bytes a client sets, one after the other
MaxBig == 17

\* keys of MAX_KEY_SIZE bytes: two decimal digits, then 'k' to the end
BigPad == [j \in 1..(MAX_KEY_SIZE - 2) |-> 107]

BigKey(i) == <<48 + (i \div 10), 48 + (i % 10)>> \o BigPad

\* the command lines of the clients, as bytes:
\* "SET a x", "GET a", "DEL a", "SET a y z", "SET a NULL", "SET a\rb c",
\* "SET e  x \n", "get e\n", "DEL e", "GET a\rb", "KEYS", "STATS", "PING",
\* "QUIT", "", " \t\n", "FOO", "SET", "SET a", "GET", "DEL", " SET e\tx",
\* "GET e extra", "KEYS\r\n", "SET \r a", and one more: "SET a\x0bb c"
LinePool ==
    << <<83, 69, 84, 32, 97, 32, 120>>,
       <<71, 69, 84, 32, 97>>,
       <<68, 69, 76, 32, 97>>,
       <<83, 69, 84, 32, 97, 32, 121, 32, 122>>,
       <<83, 69, 84, 32, 97, 32, 78, 85, 76, 76>>,
       <<83, 69, 84, 32, 97, 13, 98, 32, 99>>,
       <<83, 69, 84, 32, 101, 32, 32, 120, 32, 10>>,
       <<103, 101, 116, 32, 101, 10>>,
       <<68, 69, 76, 32, 101>>,
       <<71, 69, 84, 32, 97, 13, 98>>,
       <<75, 69, 89, 83>>,
       <<83, 84, 65, 84, 83>>,
       <<80, 73, 78, 71>>,
       <<81, 85, 73, 84>>,
       <<>>,
       <<32, 9, 10>>,
       <<70, 79, 79>>,
       <<83, 69, 84>>,
       <<83, 69, 84, 32, 97>>,
       <<71, 69, 84>>,
       <<68, 69, 76>>,
       <<32, 83, 69, 84, 32, 101, 9, 120>>,
       <<71, 69, 84, 32, 101, 32, 101, 120, 116, 114, 97>>,
       <<75, 69, 89, 83, 13, 10>>,
       <<83, 69, 84, 32, 13, 32, 97>>,
       <<83, 69, 84, 32, 97, 11, 98, 32, 99>> >>

Lines == {LinePool[i] : i \in 1..MaxLines}

\* the arguments ht_create is called with; 0 selects INITIAL_BUCKETS
InitialBucketsArgs == {0, 1}

\* strings at the size limits: 'k' x 256, 'k' x 257, 'v' x 4096, 'v' x 4097
Key256 == [i \in 1..MAX_KEY_SIZE |-> 107]
Key257 == [i \in 1..(MAX_KEY_SIZE + 1) |-> 107]
Val4096 == [i \in 1..MAX_VALUE_SIZE |-> 118]
Val4097 == [i \in 1..(MAX_VALUE_SIZE + 1) |-> 118]
BoundaryKeys == {KeyPool[1], Key256, Key257}
BoundaryValues == {<<120>>, Val4096, Val4097}

\* the null pointer returned by ht_get (no C string contains the byte -1)
NULL == <<-1>>

\* ---------------------------------------------------------------------------
\* uint64_t arithmetic on four 16-bit limbs, least significant first
\* ---------------------------------------------------------------------------
Base == 65536

\* conversion of an int in 0..65535 to uint64_t
U64FromInt(c) == <<c, 0, 0, 0>>

\* hash * 33 + c modulo 2^64, which is what ((hash << 5) + hash) + c computes;
\* c is an int in -128..255 and a negative c borrows from the higher limbs
MulAdd33(hash, c) ==
    LET t1 == hash[1] * 33 + c
        t2 == hash[2] * 33 + (t1 \div Base)
        t3 == hash[3] * 33 + (t2 \div Base)
        t4 == hash[4] * 33 + (t3 \div Base)
    IN  <<t1 % Base, t2 % Base, t3 % Base, t4 % Base>>

\* hash % n for 0 < n < 2^15
Mod64(a, n) ==
    LET r4 == a[4] % n
        r3 == (r4 * Base + a[3]) % n
        r2 == (r3 * Base + a[2]) % n
    IN  (r2 * Base + a[1]) % n

\* `int c = *str++': the value of a char holding byte b, where plain char is
\* signed or unsigned as the build's platform has it
CharToInt(b, signed) == IF signed /\ b >= 128 THEN b - 256 ELSE b

\* the loop `while ((c = *str++)) hash = hash * 33 + c' over str[lo..hi],
\* bytes taken in order.  The range is split in halves and the left half is
\* computed before the right one starts (the test on left[1] does that), so
\* that the evaluation stays shallow for long keys.
RECURSIVE Djb2Range(_, _, _, _, _)
Djb2Range(str, lo, hi, hash, signed) ==
    IF lo > hi THEN hash
    ELSE IF lo = hi THEN MulAdd33(hash, CharToInt(str[lo], signed))
    ELSE LET mid == (lo + hi) \div 2
             left == Djb2Range(str, lo, mid, hash, signed)
         IN  IF left[1] >= 0
             THEN Djb2Range(str, mid + 1, hi, left, signed)
             ELSE left

hash_djb2(str, signed) == Djb2Range(str, 1, Len(str), U64FromInt(5381), signed)

\* the hashes of the keys in use, tabulated once
AllKeys ==
    {KeyPool[i] : i \in 1..Len(KeyPool)} \cup BoundaryKeys
    \cup {FillKey(i) : i \in 0..MaxFill} \cup {BigKey(i) : i \in 0..MaxBig}

RECURSIVE HashesOf(_, _)
HashesOf(S, signed) ==
    IF S = {} THEN <<>>
    ELSE LET str == CHOOSE x \in S : TRUE
         IN  (str :> hash_djb2(str, signed)) @@ HashesOf(S \ {str}, signed)

HashOf == (TRUE :> HashesOf(AllKeys, TRUE)) @@ (FALSE :> HashesOf(AllKeys, FALSE))

\* ---------------------------------------------------------------------------
\* Entries
\* ---------------------------------------------------------------------------
\* a HashEntry is its key, value and the two cached lengths; its `next' link
\* is its successor in the chain.  NoEntry is the null HashEntry pointer.
NoEntry == [key |-> <<>>, value |-> <<>>, key_len |-> -1, value_len |-> -1]

\* fail_at: 0 when the three malloc calls succeed, else the failing one (1..3)
entry_create(key, value, fail_at) ==
    IF fail_at # 0 THEN NoEntry
    ELSE [key |-> key, value |-> value,
          key_len |-> Len(key), value_len |-> Len(value)]

\* entry_memory without the two terminating NUL bytes
entry_memory_no_nul(entry) ==
    IF entry = NoEntry THEN 0
    ELSE SizeofHashEntry + entry.key_len + entry.value_len

entry_memory(entry) ==
    IF entry = NoEntry THEN 0
    ELSE SizeofHashEntry + entry.key_len + 1 + entry.value_len + 1

\* ---------------------------------------------------------------------------
\* The table as a value, and helpers over chains
\* ---------------------------------------------------------------------------
HT == [buckets |-> buckets, num_buckets |-> num_buckets,
       num_entries |-> num_entries, memory_used |-> memory_used]

HTNext == [buckets |-> buckets', num_buckets |-> num_buckets',
           num_entries |-> num_entries', memory_used |-> memory_used']

\* the nodes of the buckets lo..hi, bucket by bucket, head first; the range
\* is split in halves so that the evaluation stays shallow for large arrays
RECURSIVE NodesIn(_, _, _)
NodesIn(bs, lo, hi) ==
    IF lo > hi THEN <<>>
    ELSE IF lo = hi THEN bs[lo]
    ELSE LET mid == (lo + hi) \div 2
         IN  NodesIn(bs, lo, mid) \o NodesIn(bs, mid + 1, hi)

\* all nodes reachable from the bucket array, bucket by bucket, head first
NodesFrom(bs, i) == NodesIn(bs, i, Len(bs))

AllNodes(ht) == NodesFrom(ht.buckets, 1)

\* position of the first node of chain whose key is key (strcmp == 0), 0 if none
RECURSIVE FindFrom(_, _, _)
FindFrom(chain, key, i) ==
    IF i > Len(chain) THEN 0
    ELSE IF chain[i].key = key THEN i
    ELSE FindFrom(chain, key, i + 1)

\* a search that compares the head of the chain only
FindHeadOnly(chain, key) ==
    IF Len(chain) >= 1 /\ chain[1].key = key THEN 1 ELSE 0

Find(chain, key) == FindFrom(chain, key, 1)

\* an unlink that drops the successors of the node with it
RemoveAtTruncate(chain, p) == SubSeq(chain, 1, p - 1)

RemoveAt(chain, p) ==
    [i \in 1..(Len(chain) - 1) |-> IF i < p THEN chain[i] ELSE chain[i + 1]]

\* ---------------------------------------------------------------------------
\* ht_create
\* ---------------------------------------------------------------------------
ht_create(initial_buckets) ==
    LET n == IF initial_buckets > 0 THEN initial_buckets ELSE INITIAL_BUCKETS
    IN  [buckets |-> [i \in 1..n |-> <<>>],
         num_buckets |-> n,
         num_entries |-> 0,
         memory_used |-> SizeofHashTable + n * SizeofPtr]

\* ---------------------------------------------------------------------------
\* ht_resize
\* ---------------------------------------------------------------------------
\* index of the bucket a key belongs to in an array of n buckets (0-based)
BucketIndex(key, n) ==
    Mod64(IF key \in DOMAIN HashOf[char_signed]
          THEN HashOf[char_signed][key]
          ELSE hash_djb2(key, char_signed), n)

\* a rehash that indexes with the old bucket count
RECURSIVE RehashOldIndex(_, _, _, _)
RehashOldIndex(nodes, i, new_buckets, new_num_buckets) ==
    IF i > Len(nodes) THEN new_buckets
    ELSE LET new_index == BucketIndex(nodes[i].key, new_num_buckets \div 2)
         IN  RehashOldIndex(nodes, i + 1,
                    [new_buckets EXCEPT ![new_index + 1] = <<nodes[i]>> \o @],
                    new_num_buckets)

\* the rehash loop: nodes are visited in order and linked at the head
RECURSIVE Rehash(_, _, _, _)
Rehash(nodes, i, new_buckets, new_num_buckets) ==
    IF i > Len(nodes) THEN new_buckets
    ELSE LET new_index == BucketIndex(nodes[i].key, new_num_buckets)
         IN  Rehash(nodes, i + 1,
                    [new_buckets EXCEPT ![new_index + 1] = <<nodes[i]>> \o @],
                    new_num_buckets)

\* a resize that moves the accounting to the new array before it knows
\* whether the allocation succeeded
ht_resize_accounts_first(ht, calloc_ok) ==
    LET new_num_buckets == ht.num_buckets * 2
        accounted == (ht.memory_used - ht.num_buckets * SizeofPtr)
                     + new_num_buckets * SizeofPtr
    IN  IF ~calloc_ok
        THEN [ret |-> -1, ht |-> [ht EXCEPT !.memory_used = accounted]]
        ELSE [ret |-> 0,
              ht |-> [buckets |-> Rehash(AllNodes(ht), 1,
                                         [i \in 1..new_num_buckets |-> <<>>],
                                         new_num_buckets),
                      num_buckets |-> new_num_buckets,
                      num_entries |-> ht.num_entries,
                      memory_used |-> accounted]]

\* a resize that grows the array by half
ht_resize_by_half(ht, calloc_ok) ==
    LET new_num_buckets == (ht.num_buckets * 3) \div 2
    IN  IF ~calloc_ok THEN [ret |-> -1, ht |-> ht]
        ELSE [ret |-> 0,
              ht |-> [buckets |-> Rehash(AllNodes(ht), 1,
                                         [i \in 1..new_num_buckets |-> <<>>],
                                         new_num_buckets),
                      num_buckets |-> new_num_buckets,
                      num_entries |-> ht.num_entries,
                      memory_used |-> (ht.memory_used
                                       - ht.num_buckets * SizeofPtr)
                                      + new_num_buckets * SizeofPtr]]

ht_resize(ht, calloc_ok) ==
    LET new_num_buckets == ht.num_buckets * 2
    IN  IF ~calloc_ok THEN [ret |-> -1, ht |-> ht]
        ELSE [ret |-> 0,
              ht |-> [buckets |-> Rehash(AllNodes(ht), 1,
                                         [i \in 1..new_num_buckets |-> <<>>],
                                         new_num_buckets),
                      num_buckets |-> new_num_buckets,
                      num_entries |-> ht.num_entries,
                      memory_used |-> (ht.memory_used
                                       - ht.num_buckets * SizeofPtr)
                                      + new_num_buckets * SizeofPtr]]

\* ---------------------------------------------------------------------------
\* ht_set
\* ---------------------------------------------------------------------------
\* a size test with >= in place of >
SizesBelow(key, value) ==
    ~(Len(key) >= MAX_KEY_SIZE \/ Len(value) >= MAX_VALUE_SIZE)

\* strlen(key) > MAX_KEY_SIZE || strlen(value) > MAX_VALUE_SIZE is false
SizesOk(key, value) ==
    ~(Len(key) > MAX_KEY_SIZE \/ Len(value) > MAX_VALUE_SIZE)

\* a threshold test with >= in place of >
LoadFactorReached(ht) == 4 * ht.num_entries >= 3 * ht.num_buckets

\* (float)num_entries / (float)num_buckets > 0.75; both conversions and the
\* comparison are exact for counts below 2^23, where it is 4n > 3b
LoadFactorExceeded(ht) == 4 * ht.num_entries > 3 * ht.num_buckets

\* the outcomes of the allocations a set may perform: calloc of the bucket
\* array, malloc of the replacement value, the three mallocs of entry_create.
\* A call takes either the update or the insert path, so outcomes in which
\* both paths would fail add no behaviour and are left out.
Allocs ==
    {a \in [buckets : BOOLEAN, new_value : BOOLEAN, entry_fail_at : 0..3] :
        a.new_value \/ a.entry_fail_at = 0}

\* an update that records the new length but keeps the old value buffer
UpdateValueLenOnly(t, index, p, value) ==
    LET entry == t.buckets[index + 1][p]
        old_mem == entry_memory(entry)
        updated == [entry EXCEPT !.value_len = Len(value)]
    IN  [t EXCEPT !.buckets[index + 1][p] = updated,
                  !.memory_used = (@ - old_mem) + entry_memory(updated)]

\* an update that relinks the updated node at the head of its chain
UpdateValueMoveToFront(t, index, p, value) ==
    LET chain == t.buckets[index + 1]
        entry == chain[p]
        old_mem == entry_memory(entry)
        updated == [entry EXCEPT !.value = value, !.value_len = Len(value)]
    IN  [t EXCEPT !.buckets[index + 1] = <<updated>> \o RemoveAt(chain, p),
                  !.memory_used = (@ - old_mem) + entry_memory(updated)]

\* the update of the node at position p of bucket index: the value and its
\* length are replaced, and memory_used is adjusted by the node's sizes
UpdateValue(t, index, p, value) ==
    LET entry == t.buckets[index + 1][p]
        old_mem == entry_memory(entry)
        updated == [entry EXCEPT !.value = value, !.value_len = Len(value)]
    IN  [t EXCEPT !.buckets[index + 1][p] = updated,
                  !.memory_used = (@ - old_mem) + entry_memory(updated)]

\* an insert that links the new node at the tail of the chain
InsertTail(t, index, new_entry) ==
    [t EXCEPT !.buckets[index + 1] = @ \o <<new_entry>>,
              !.num_entries = @ + 1,
              !.memory_used = @ + entry_memory(new_entry)]

\* the new node is linked at the head of bucket index
InsertHead(t, index, new_entry) ==
    [t EXCEPT !.buckets[index + 1] = <<new_entry>> \o @,
              !.num_entries = @ + 1,
              !.memory_used = @ + entry_memory(new_entry)]

\* a set that frees the old value before it allocates the new one
ht_set_frees_first(ht, key, value, alloc) ==
    IF ~SizesOk(key, value)
    THEN [ret |-> -1, ht |-> ht, resize |-> "none", found |-> FALSE,
          nomem |-> FALSE]
    ELSE
    LET resized == IF LoadFactorExceeded(ht)
                   THEN ht_resize(ht, alloc.buckets)
                   ELSE [ret |-> 1, ht |-> ht]
        rs == CASE resized.ret = 1 -> "none"
                [] resized.ret = 0 -> "ok"
                [] OTHER -> "failed"
        t == resized.ht
        index == BucketIndex(key, t.num_buckets)
        p == Find(t.buckets[index + 1], key)
    IN  IF p # 0
        THEN IF ~alloc.new_value
             THEN [ret |-> -1, ht |-> UpdateValue(t, index, p, <<>>),
                   resize |-> rs, found |-> TRUE, nomem |-> TRUE]
             ELSE [ret |-> 0, ht |-> UpdateValue(t, index, p, value),
                   resize |-> rs, found |-> TRUE, nomem |-> FALSE]
        ELSE LET new_entry == entry_create(key, value, alloc.entry_fail_at)
             IN  IF new_entry = NoEntry
                 THEN [ret |-> -1, ht |-> t, resize |-> rs, found |-> FALSE,
                       nomem |-> TRUE]
                 ELSE [ret |-> 0, ht |-> InsertHead(t, index, new_entry),
                       resize |-> rs, found |-> FALSE, nomem |-> FALSE]

\* a set that computes the bucket index before the resize
ht_set_index_first(ht, key, value, alloc) ==
    IF ~SizesOk(key, value)
    THEN [ret |-> -1, ht |-> ht, resize |-> "none", found |-> FALSE,
          nomem |-> FALSE]
    ELSE
    LET resized == IF LoadFactorExceeded(ht)
                   THEN ht_resize(ht, alloc.buckets)
                   ELSE [ret |-> 1, ht |-> ht]
        rs == CASE resized.ret = 1 -> "none"
                [] resized.ret = 0 -> "ok"
                [] OTHER -> "failed"
        t == resized.ht
        index == BucketIndex(key, ht.num_buckets)
        p == Find(t.buckets[index + 1], key)
    IN  IF p # 0
        THEN IF ~alloc.new_value
             THEN [ret |-> -1, ht |-> t, resize |-> rs, found |-> TRUE,
                   nomem |-> TRUE]
             ELSE [ret |-> 0, ht |-> UpdateValue(t, index, p, value),
                   resize |-> rs, found |-> TRUE, nomem |-> FALSE]
        ELSE LET new_entry == entry_create(key, value, alloc.entry_fail_at)
             IN  IF new_entry = NoEntry
                 THEN [ret |-> -1, ht |-> t, resize |-> rs, found |-> FALSE,
                       nomem |-> TRUE]
                 ELSE [ret |-> 0, ht |-> InsertHead(t, index, new_entry),
                       resize |-> rs, found |-> FALSE, nomem |-> FALSE]

ht_set(ht, key, value, alloc) ==
    IF ~SizesOk(key, value)
    THEN [ret |-> -1, ht |-> ht, resize |-> "none", found |-> FALSE,
          nomem |-> FALSE]
    ELSE
    LET resized == IF LoadFactorExceeded(ht)
                   THEN ht_resize(ht, alloc.buckets)
                   ELSE [ret |-> 1, ht |-> ht]
        rs == CASE resized.ret = 1 -> "none"
                [] resized.ret = 0 -> "ok"
                [] OTHER -> "failed"
        t == resized.ht
        index == BucketIndex(key, t.num_buckets)
        p == Find(t.buckets[index + 1], key)
    IN  IF p # 0
        THEN IF ~alloc.new_value
             THEN [ret |-> -1, ht |-> t, resize |-> rs, found |-> TRUE,
                   nomem |-> TRUE]
             ELSE [ret |-> 0, ht |-> UpdateValue(t, index, p, value),
                   resize |-> rs, found |-> TRUE, nomem |-> FALSE]
        ELSE LET new_entry == entry_create(key, value, alloc.entry_fail_at)
             IN  IF new_entry = NoEntry
                 THEN [ret |-> -1, ht |-> t, resize |-> rs, found |-> FALSE,
                       nomem |-> TRUE]
                 ELSE [ret |-> 0, ht |-> InsertHead(t, index, new_entry),
                       resize |-> rs, found |-> FALSE, nomem |-> FALSE]

\* ---------------------------------------------------------------------------
\* ht_get
\* ---------------------------------------------------------------------------
ht_get(ht, key) ==
    LET index == BucketIndex(key, ht.num_buckets)
        chain == ht.buckets[index + 1]
        p == Find(chain, key)
    IN  IF p # 0 THEN chain[p].value ELSE NULL

\* ---------------------------------------------------------------------------
\* ht_delete
\* ---------------------------------------------------------------------------
\* where the unlinked node sat in its chain
ChainPos(chain, p) ==
    CASE p = 0 -> "none"
      [] p = 1 /\ Len(chain) = 1 -> "only"
      [] p = 1 /\ Len(chain) > 1 -> "head"
      [] p > 1 /\ p = Len(chain) -> "tail"
      [] OTHER -> "middle"

\* an unlink that forgets num_entries--
UnlinkNoDecrement(ht, index, p) ==
    LET chain == ht.buckets[index + 1]
    IN  [ht EXCEPT !.buckets[index + 1] = RemoveAt(chain, p),
                   !.memory_used = @ - entry_memory(chain[p])]

\* the node at position p of bucket index is unlinked (the head pointer or
\* its predecessor's link now names its successor) and destroyed
Unlink(ht, index, p) ==
    LET chain == ht.buckets[index + 1]
    IN  [ht EXCEPT !.buckets[index + 1] = RemoveAt(chain, p),
                   !.memory_used = @ - entry_memory(chain[p]),
                   !.num_entries = @ - 1]

\* a delete that decrements num_entries whether or not it found the key
ht_delete_counts_miss(ht, key) ==
    LET index == BucketIndex(key, ht.num_buckets)
        chain == ht.buckets[index + 1]
        p == Find(chain, key)
    IN  IF p = 0
        THEN [ret |-> -1, ht |-> [ht EXCEPT !.num_entries = @ - 1],
              pos |-> "none"]
        ELSE [ret |-> 0, ht |-> Unlink(ht, index, p),
              pos |-> ChainPos(chain, p)]

ht_delete(ht, key) ==
    LET index == BucketIndex(key, ht.num_buckets)
        chain == ht.buckets[index + 1]
        p == Find(chain, key)
    IN  IF p = 0 THEN [ret |-> -1, ht |-> ht, pos |-> "none"]
        ELSE [ret |-> 0, ht |-> Unlink(ht, index, p),
              pos |-> ChainPos(chain, p)]

\* ---------------------------------------------------------------------------
\* ht_stats
\* ---------------------------------------------------------------------------
ht_stats(ht) == [num_keys |-> ht.num_entries, memory_bytes |-> ht.memory_used]

\* ---------------------------------------------------------------------------
\* The state machine: a store and the calls made on it
\* ---------------------------------------------------------------------------
\* `last' records the most recent call and what it returned; `live' is the
\* set of keys set successfully and not deleted since
LastRec(op, key, value, ret, result, found, resize, nomem, pos) ==
    [op |-> op, key |-> key, value |-> value, ret |-> ret, result |-> result,
     found |-> found, resize |-> resize, nomem |-> nomem, pos |-> pos]

\* the clients that may connect
Clients == 1..MaxClients

\* a connection nobody has opened yet
NoConn == [state |-> "none", inbound |-> <<>>, outbound |-> <<>>,
           lines |-> <<>>, peer |-> "open"]

\* the observers before the first command
ObserversInit ==
    /\ inserted = <<>>
    /\ linked = <<>>

\* main up to the accept loop: the handlers are installed, the table is
\* created and the socket listens
ServerInit ==
    /\ g_running = TRUE
    /\ g_server_socket = ListenFd
    /\ g_hash_table = "table"
    /\ pc = "server_loop"
    /\ client_socket = -1
    /\ conns = [c \in Clients |-> NoConn]

Init ==
    /\ char_signed \in BOOLEAN
    /\ \E initial_buckets \in InitialBucketsArgs :
         LET ht == ht_create(initial_buckets)
         IN  /\ buckets = ht.buckets
             /\ num_buckets = ht.num_buckets
             /\ num_entries = ht.num_entries
             /\ memory_used = ht.memory_used
    /\ live = {}
    /\ last = LastRec("create", <<>>, <<>>, 0, NULL, FALSE, "none", FALSE, "none")
    /\ ObserversInit
    /\ ServerInit

Store(ht) ==
    /\ buckets' = ht.buckets
    /\ num_buckets' = ht.num_buckets
    /\ num_entries' = ht.num_entries
    /\ memory_used' = ht.memory_used

\* the allocation outcomes that make a difference to ht_set(ht, key, value):
\* an allocation the call never reaches is taken to succeed
AllocsAsked(ht, key, value) ==
    LET sizes_ok == SizesOk(key, value)
        nodes == AllNodes(ht)
        present == \E i \in 1..Len(nodes) : nodes[i].key = key
    IN  {a \in Allocs :
            /\ a.buckets \/ (sizes_ok /\ LoadFactorExceeded(ht))
            /\ a.new_value \/ (sizes_ok /\ present)
            /\ a.entry_fail_at = 0 \/ (sizes_ok /\ ~present)}

SetCall(K, V) ==
    \E key \in K, value \in V :
      \E alloc \in AllocsAsked(HT, key, value) :
        LET r == ht_set(HT, key, value, alloc)
        IN  /\ Store(r.ht)
            /\ live' = IF r.ret = 0 THEN live \cup {key} ELSE live
            /\ last' = LastRec("set", key, value, r.ret, NULL, r.found,
                               r.resize, r.nomem, "none")
            /\ UNCHANGED <<char_signed, observerVars, serverVars>>

GetCall(K) ==
    \E key \in K :
        /\ last' = LastRec("get", key, <<>>, 0, ht_get(HT, key), FALSE,
                           "none", FALSE, "none")
        /\ UNCHANGED <<buckets, num_buckets, num_entries, memory_used,
                       char_signed, live, observerVars, serverVars>>

DeleteCall(K) ==
    \E key \in K :
        LET r == ht_delete(HT, key)
        IN  /\ Store(r.ht)
            /\ live' = live \ {key}
            /\ last' = LastRec("delete", key, <<>>, r.ret, NULL, r.ret = 0,
                               "none", FALSE, r.pos)
            /\ UNCHANGED <<char_signed, observerVars, serverVars>>

Set == SetCall(Keys, Values)
Get == GetCall(Keys)
Delete == DeleteCall(Keys)

Next == Set \/ Get \/ Delete

Spec == Init /\ [][Next]_vars

\* the same store driven with keys and values at the size limits
SetBoundary == SetCall(BoundaryKeys, BoundaryValues)
GetBoundary == GetCall(BoundaryKeys)
DeleteBoundary == DeleteCall(BoundaryKeys)

NextBoundary == SetBoundary \/ GetBoundary \/ DeleteBoundary

SpecBoundary == Init /\ [][NextBoundary]_vars

\* ---------------------------------------------------------------------------
\* C library functions used by the interpreter (src/engine/server.c)
\* ---------------------------------------------------------------------------
\* isspace in the "C" locale: space, \t, \n, \v, \f, \r
Whitespace == {32, 9, 10, 11, 12, 13}

isspace(c) == c \in Whitespace

toupper(c) == IF c >= 97 /\ c <= 122 THEN c - 32 ELSE c

\* the delimiters parse_command gives strtok_r: space and \t
Delimiters == {32, 9}

\* first position of lo..hi whose byte is in D (member) or is not in D
\* (~member), hi + 1 when there is none; the range is searched by halves so
\* that the evaluation stays shallow for long lines
RECURSIVE FirstWhere(_, _, _, _, _)
FirstWhere(s, lo, hi, D, member) ==
    IF lo > hi THEN hi + 1
    ELSE IF lo = hi THEN IF (s[lo] \in D) = member THEN lo ELSE hi + 1
    ELSE LET mid == (lo + hi) \div 2
             left == FirstWhere(s, lo, mid, D, member)
         IN  IF left <= mid THEN left
             ELSE FirstWhere(s, mid + 1, hi, D, member)

\* `while (*p && isspace(*p)) p++' from position i: the first position
\* whose byte is not in D (Len(s) + 1: the NUL)
SkipIn(s, i, D) == FirstWhere(s, i, Len(s), D, FALSE)

\* `while (*p && !isspace(*p)) p++' from position i: the first position
\* whose byte is in D (Len(s) + 1: the NUL)
SkipNotIn(s, i, D) == FirstWhere(s, i, Len(s), D, TRUE)

\* `while (end > str && isspace(*end)) end--'
RECURSIVE SkipBack(_, _, _)
SkipBack(s, end, str) ==
    IF end > str /\ isspace(s[end]) THEN SkipBack(s, end - 1, str) ELSE end

trim_whitespace(str) ==
    LET From(start) ==
            IF start > Len(str) THEN <<>>
            ELSE SubSeq(str, start, SkipBack(str, Len(str), start))
    IN  From(SkipIn(str, 1, Whitespace))

\* strtok_r(str, delim, &saveptr) continuing at position saveptr of str:
\* the token (NULL when none is left) and the position to continue at
strtok_r(str, saveptr, delim) ==
    LET Token(start, end) ==
            IF start > Len(str) THEN [token |-> NULL, saveptr |-> start]
            ELSE [token |-> SubSeq(str, start, end - 1),
                  saveptr |-> IF end <= Len(str) THEN end + 1 ELSE end]
        From(start) == Token(start, SkipNotIn(str, start, delim))
    IN  From(SkipIn(str, saveptr, delim))

\* the loop of parse_command: tokens[count++] = token while a token is left
\* and count < max_tokens
RECURSIVE ParseLoop(_, _, _, _)
ParseLoop(cmd, saveptr, tokens, max_tokens) ==
    LET Stored(t) ==
            IF t.token # NULL /\ Len(tokens) < max_tokens
            THEN ParseLoop(cmd, t.saveptr, Append(tokens, t.token), max_tokens)
            ELSE tokens
    IN  Stored(strtok_r(cmd, saveptr, Delimiters))

\* the tokens parse_command stores (their number is its return value)
parse_command(cmd, max_tokens) == ParseLoop(cmd, 1, <<>>, max_tokens)

\* %zu
RECURSIVE Decimal(_)
Decimal(n) ==
    IF n < 10 THEN <<48 + n>> ELSE Append(Decimal(n \div 10), 48 + (n % 10))

\* snprintf(buffer, size, ...) of a text: at most size - 1 bytes are stored
Snprintf(size, text) ==
    IF Len(text) > size - 1 THEN SubSeq(text, 1, size - 1) ELSE text

\* ---------------------------------------------------------------------------
\* process_command (src/engine/server.c): command names and reply texts
\* ---------------------------------------------------------------------------
\* "SET", "GET", "DEL", "STATS", "KEYS", "PING", "QUIT"
CmdSET == <<83, 69, 84>>
CmdGET == <<71, 69, 84>>
CmdDEL == <<68, 69, 76>>
CmdSTATS == <<83, 84, 65, 84, 83>>
CmdKEYS == <<75, 69, 89, 83>>
CmdPING == <<80, 73, 78, 71>>
CmdQUIT == <<81, 85, 73, 84>>

\* "OK"
ReplyOK == <<79, 75>>
\* "NULL"
ReplyNULL == <<78, 85, 76, 76>>
\* "NOT FOUND"
ReplyNotFound == <<78, 79, 84, 32, 70, 79, 85, 78, 68>>
\* "PONG"
ReplyPong == <<80, 79, 78, 71>>
\* "BYE"
ReplyBye == <<66, 89, 69>>
\* "ERROR: Memory allocation failed"
ErrMemory == <<69, 82, 82, 79, 82, 58, 32, 77, 101, 109, 111, 114, 121, 32,
               97, 108, 108, 111, 99, 97, 116, 105, 111, 110, 32, 102, 97,
               105, 108, 101, 100>>
\* "ERROR: Empty command"
ErrEmpty == <<69, 82, 82, 79, 82, 58, 32, 69, 109, 112, 116, 121, 32, 99,
              111, 109, 109, 97, 110, 100>>
\* "ERROR: SET requires key and value"
ErrSetArgs == <<69, 82, 82, 79, 82, 58, 32, 83, 69, 84, 32, 114, 101, 113,
                117, 105, 114, 101, 115, 32, 107, 101, 121, 32, 97, 110,
                100, 32, 118, 97, 108, 117, 101>>
\* "ERROR: Failed to set value"
ErrSetFailed == <<69, 82, 82, 79, 82, 58, 32, 70, 97, 105, 108, 101, 100,
                  32, 116, 111, 32, 115, 101, 116, 32, 118, 97, 108, 117,
                  101>>
\* "ERROR: SET requires a value"
ErrSetValue == <<69, 82, 82, 79, 82, 58, 32, 83, 69, 84, 32, 114, 101, 113,
                 117, 105, 114, 101, 115, 32, 97, 32, 118, 97, 108, 117,
                 101>>
\* "ERROR: GET requires a key"
ErrGetArgs == <<69, 82, 82, 79, 82, 58, 32, 71, 69, 84, 32, 114, 101, 113,
                117, 105, 114, 101, 115, 32, 97, 32, 107, 101, 121>>
\* "ERROR: DEL requires a key"
ErrDelArgs == <<69, 82, 82, 79, 82, 58, 32, 68, 69, 76, 32, 114, 101, 113,
                117, 105, 114, 101, 115, 32, 97, 32, 107, 101, 121>>
\* "ERROR: Unknown command '"
ErrUnknownPrefix == <<69, 82, 82, 79, 82, 58, 32, 85, 110, 107, 110, 111,
                      119, 110, 32, 99, 111, 109, 109, 97, 110, 100, 32,
                      39>>
\* "{\"keys\": " and ", \"memory_bytes\": "
StatsKeys == <<123, 34, 107, 101, 121, 115, 34, 58, 32>>
StatsMemory == <<44, 32, 34, 109, 101, 109, 111, 114, 121, 95, 98, 121, 116,
                 101, 115, 34, 58, 32>>

\* char buffer[256] of the STATS and unknown-command replies
ReplyBufferSize == 256
\* char *tokens[10]
MaxTokens == 10
\* the initial size of the KEYS reply buffer
KeysBufferSize == 4096

\* the STATS reply: snprintf into buffer[256]
StatsReply(ht) ==
    LET s == ht_stats(ht)
    IN  Snprintf(ReplyBufferSize,
                 StatsKeys \o Decimal(s.num_keys) \o StatsMemory
                 \o Decimal(s.memory_bytes) \o <<125>>)

\* the reply to an unknown command: snprintf into buffer[256]
UnknownReply(token) ==
    Snprintf(ReplyBufferSize, ErrUnknownPrefix \o token \o <<39>>)

\* ---------------------------------------------------------------------------
\* process_command: the KEYS reply buffer
\* ---------------------------------------------------------------------------
\* The buffer is the text stored so far (buf), the write position pos and
\* the allocated size buffer_size.  cut: an snprintf stored less than its
\* text, so the C string ends there; overrun: a byte was stored at or past
\* buffer_size; reallocs: the realloc calls made; failed: one returned NULL.
\* fail_at: 0 when every allocation of the buffer succeeds, 1 when the malloc
\* fails, n + 1 when the n-th realloc fails.
KeysStart ==
    [buf |-> <<91>>, pos |-> 1, buffer_size |-> KeysBufferSize,
     first |-> TRUE, cut |-> FALSE, overrun |-> FALSE, reallocs |-> 0,
     failed |-> FALSE]

\* a buffer test that forgets the bytes the entry needs
KeysGrowIgnoresKey(k, key, fail_at) ==
    IF k.pos >= k.buffer_size - 2
    THEN [k EXCEPT !.buffer_size = @ * 2,
                   !.reallocs = @ + 1,
                   !.failed = (fail_at = k.reallocs + 2)]
    ELSE k

\* a buffer that grows by a fixed step instead of doubling
KeysGrowByStep(k, key, fail_at) ==
    LET needed == Len(key) + 5
    IN  IF k.pos + needed >= k.buffer_size - 2
        THEN [k EXCEPT !.buffer_size = @ + 64,
                       !.reallocs = @ + 1,
                       !.failed = (fail_at = k.reallocs + 2)]
        ELSE k

\* `if (pos + needed >= buffer_size - 2)': the buffer is doubled once
KeysGrow(k, key, fail_at) ==
    LET needed == Len(key) + 5
    IN  IF k.pos + needed >= k.buffer_size - 2
        THEN [k EXCEPT !.buffer_size = @ * 2,
                       !.reallocs = @ + 1,
                       !.failed = (fail_at = k.reallocs + 2)]
        ELSE k

\* `buffer[pos++] = c'
KeysPut(k, c) ==
    [k EXCEPT !.buf = IF k.cut THEN @ ELSE Append(@, c),
              !.pos = @ + 1,
              !.overrun = @ \/ k.pos >= k.buffer_size]

\* `pos += snprintf(buffer + pos, buffer_size - pos, "\"%s\"", key)'
KeysPrint(k, key) ==
    LET text == <<34>> \o key \o <<34>>
        size == k.buffer_size - k.pos
    IN  [k EXCEPT !.buf = IF k.cut THEN @ ELSE @ \o Snprintf(size, text),
                  !.pos = @ + Len(text),
                  !.cut = @ \/ Len(text) > size - 1,
                  !.overrun = @ \/ size < 0]

\* the body of the inner loop for one entry
KeysEntry(k, key, fail_at) ==
    LET Entry(grown) ==
            IF grown.failed THEN grown
            ELSE IF grown.first
            THEN KeysPrint([grown EXCEPT !.first = FALSE], key)
            ELSE KeysPrint([KeysPut(grown, 44) EXCEPT !.first = FALSE], key)
    IN  Entry(KeysGrow(k, key, fail_at))

\* the two loops over the buckets and their chains; a failed realloc leaves
\* both
RECURSIVE KeysLoop(_, _, _, _)
KeysLoop(nodes, i, k, fail_at) ==
    IF i > Len(nodes) \/ k.failed THEN k
    ELSE KeysLoop(nodes, i + 1, KeysEntry(k, nodes[i].key, fail_at), fail_at)

\* the KEYS branch: the buffer after the loops and the response
KeysCommand(ht, fail_at) ==
    LET Closed(k, closed) ==
            IF k.failed THEN [response |-> ErrMemory, k |-> k]
            ELSE [response |-> closed.buf,
                  k |-> [closed EXCEPT
                           !.overrun = @ \/ closed.pos >= closed.buffer_size]]
        Filled(k) == Closed(k, KeysPut(k, 93))
    IN  IF fail_at = 1
        THEN [response |-> ErrMemory, k |-> [KeysStart EXCEPT !.failed = TRUE]]
        ELSE Filled(KeysLoop(AllNodes(ht), 1, KeysStart, fail_at))

\* ---------------------------------------------------------------------------
\* process_command
\* ---------------------------------------------------------------------------
\* the outcomes of the allocations of one command: the allocations of ht_set
\* and the allocations of the KEYS buffer.  The copies str_duplicate makes of
\* the command and of the reply texts are taken to succeed.
SetAllocsOk == [buckets |-> TRUE, new_value |-> TRUE, entry_fail_at |-> 0]

CommandAllocsOk == [set |-> SetAllocsOk, keys_fail_at |-> 0]

\* what a command that calls nothing on the store reports
NoCall(response, ht) ==
    [response |-> response, ht |-> ht, fn |-> "none", key |-> <<>>,
     value |-> <<>>, ret |-> 0, resize |-> "none", found |-> FALSE,
     reallocs |-> 0, overrun |-> FALSE]

\* the rescan of the SET branch: the position in the trimmed original where
\* the value starts (Len + 1 when nothing is left)
ValueStart(trimmed_orig) ==
    LET p1 == SkipNotIn(trimmed_orig, 1, Whitespace)
        p2 == SkipIn(trimmed_orig, p1, Whitespace)
        p3 == SkipNotIn(trimmed_orig, p2, Whitespace)
    IN  SkipIn(trimmed_orig, p3, Whitespace)

\* what the SET branch reports after ht_set returned r
SetResult(tokens, value, r) ==
    [response |-> IF r.ret = 0 THEN ReplyOK ELSE ErrSetFailed,
     ht |-> r.ht, fn |-> "ht_set", key |-> tokens[2],
     value |-> value, ret |-> r.ret, resize |-> r.resize,
     found |-> r.found, reallocs |-> 0, overrun |-> FALSE]

\* the SET branch after the rescan found the value at position p of the
\* trimmed original
SetValue(ht, tokens, trimmed_orig, p, alloc) ==
    IF p > Len(trimmed_orig) THEN NoCall(ErrSetValue, ht)
    ELSE SetResult(tokens, SubSeq(trimmed_orig, p, Len(trimmed_orig)),
                   ht_set(ht, tokens[2],
                          SubSeq(trimmed_orig, p, Len(trimmed_orig)),
                          alloc.set))

\* the SET branch after `trimmed_orig = trim_whitespace(cmd_copy)'
SetRescan(ht, tokens, trimmed_orig, alloc) ==
    SetValue(ht, tokens, trimmed_orig, ValueStart(trimmed_orig), alloc)

\* the SET branch
SetCommand(ht, command, tokens, alloc) ==
    IF Len(tokens) < 3 THEN NoCall(ErrSetArgs, ht)
    ELSE SetRescan(ht, tokens, trim_whitespace(command), alloc)

\* the GET branch
GetCommand(ht, tokens) ==
    LET Result(value) ==
            [NoCall(IF value # NULL THEN value ELSE ReplyNULL, ht)
               EXCEPT !.fn = "ht_get", !.key = tokens[2],
                      !.found = (value # NULL)]
    IN  IF Len(tokens) < 2 THEN NoCall(ErrGetArgs, ht)
        ELSE Result(ht_get(ht, tokens[2]))

\* a DEL that answers without calling the store
DelCommandNoCall(ht, tokens) ==
    IF Len(tokens) < 2 THEN NoCall(ErrDelArgs, ht)
    ELSE [NoCall(IF ht_get(ht, tokens[2]) # NULL THEN ReplyOK
                 ELSE ReplyNotFound, ht)
            EXCEPT !.fn = "ht_delete", !.key = tokens[2]]

\* the DEL branch
DelCommand(ht, tokens) ==
    LET Result(r) ==
            [NoCall(IF r.ret = 0 THEN ReplyOK ELSE ReplyNotFound, r.ht)
               EXCEPT !.fn = "ht_delete", !.key = tokens[2],
                      !.ret = r.ret, !.found = (r.ret = 0)]
    IN  IF Len(tokens) < 2 THEN NoCall(ErrDelArgs, ht)
        ELSE Result(ht_delete(ht, tokens[2]))

\* what the KEYS branch reports after the loops returned r
KeysReply(ht, r) ==
    [NoCall(r.response, ht)
       EXCEPT !.fn = "keys", !.reallocs = r.k.reallocs,
              !.overrun = r.k.overrun]

\* the comparisons of tokens[0] with the command names
Dispatch(ht, command, tokens, alloc) ==
    IF Len(tokens) = 0 THEN NoCall(ErrEmpty, ht)
    ELSE IF tokens[1] = CmdSET THEN SetCommand(ht, command, tokens, alloc)
    ELSE IF tokens[1] = CmdGET THEN GetCommand(ht, tokens)
    ELSE IF tokens[1] = CmdDEL THEN DelCommand(ht, tokens)
    ELSE IF tokens[1] = CmdSTATS
         THEN [NoCall(StatsReply(ht), ht) EXCEPT !.fn = "ht_stats"]
    ELSE IF tokens[1] = CmdKEYS
         THEN KeysReply(ht, KeysCommand(ht, alloc.keys_fail_at))
    ELSE IF tokens[1] = CmdPING THEN NoCall(ReplyPong, ht)
    ELSE IF tokens[1] = CmdQUIT THEN NoCall(ReplyBye, ht)
    ELSE NoCall(UnknownReply(tokens[1]), ht)

\* `for (char *p = tokens[0]; *p; p++) *p = toupper(*p)'
UpperFirst(parsed) ==
    [i \in 1..Len(parsed) |->
       IF i = 1 THEN [j \in 1..Len(parsed[1]) |-> toupper(parsed[1][j])]
       ELSE parsed[i]]

\* process_command after `trimmed = trim_whitespace(cmd_copy)'
Interpret(ht, command, trimmed, alloc) ==
    IF Len(trimmed) = 0 THEN NoCall(ErrEmpty, ht)
    ELSE Dispatch(ht, command, UpperFirst(parse_command(trimmed, MaxTokens)),
                  alloc)

process_command(ht, command, alloc) ==
    Interpret(ht, command, trim_whitespace(command), alloc)

\* the allocation outcomes that make a difference to this command: an
\* allocation the command never reaches is taken to succeed
CommandAllocsAsked(ht, command) ==
    LET Asked(r) ==
            {[set |-> a, keys_fail_at |-> k] :
                a \in IF r.fn = "ht_set"
                      THEN AllocsAsked(ht, r.key, r.value)
                      ELSE {SetAllocsOk},
                k \in IF r.fn = "keys" THEN 0..(r.reallocs + 1) ELSE {0}}
    IN  Asked(process_command(ht, command, CommandAllocsOk))

\* ---------------------------------------------------------------------------
\* The interpreter as a state machine: the store of main and the command
\* lines handed to process_command
\* ---------------------------------------------------------------------------
\* what `last' records of a command: the line, the response, the call made
\* on the store with its arguments and result, and the allocation outcomes
CommandRec(line, r, alloc) ==
    [op |-> "command", line |-> line, response |-> r.response, fn |-> r.fn,
     key |-> r.key, value |-> r.value, ret |-> r.ret, resize |-> r.resize,
     found |-> r.found, reallocs |-> r.reallocs, overrun |-> r.overrun,
     alloc |-> alloc]

\* the link log after the rehash loop has visited nodes[i..]
RECURSIVE Relinked(_, _, _, _)
Relinked(nodes, i, log, n) ==
    IF i > Len(nodes) THEN log
    ELSE Relinked(nodes, i + 1,
                  [log EXCEPT ![BucketIndex(nodes[i].key, n) + 1] =
                                 Append(@, nodes[i].key)],
                  n)

\* the sequence s without the key k
Without(s, k) == SelectSeq(s, LAMBDA x : x # k)

\* the observers after process_command returned r on the table ht
InsertedAfter(r) ==
    IF r.fn = "ht_set" /\ r.ret = 0 /\ ~r.found THEN Append(inserted, r.key)
    ELSE IF r.fn = "ht_delete" /\ r.ret = 0 THEN Without(inserted, r.key)
    ELSE inserted

LinkedAfter(ht, r) ==
    LET Logged(base, index) ==
            IF r.fn = "ht_set" /\ r.ret = 0 /\ ~r.found
            THEN [base EXCEPT ![index + 1] = Append(@, r.key)]
            ELSE IF r.fn = "ht_delete" /\ r.ret = 0
            THEN [base EXCEPT ![index + 1] = Without(@, r.key)]
            ELSE base
        Rehashed(n) ==
            Logged(IF r.resize = "ok"
                   THEN Relinked(AllNodes(ht), 1, [i \in 1..n |-> <<>>], n)
                   ELSE linked,
                   BucketIndex(r.key, n))
    IN  Rehashed(r.ht.num_buckets)

LiveAfter(r) ==
    IF r.fn = "ht_set" /\ r.ret = 0 THEN live \cup {r.key}
    ELSE IF r.fn = "ht_delete" /\ r.ret = 0 THEN live \ {r.key}
    ELSE live

\* main: g_hash_table = ht_create(INITIAL_BUCKETS)
InitMain ==
    /\ char_signed \in BOOLEAN
    /\ LET ht == ht_create(INITIAL_BUCKETS)
       IN  /\ buckets = ht.buckets
           /\ num_buckets = ht.num_buckets
           /\ num_entries = ht.num_entries
           /\ memory_used = ht.memory_used
    /\ live = {}
    /\ last = [op |-> "main"]
    /\ inserted = <<>>
    /\ linked = [i \in 1..INITIAL_BUCKETS |-> <<>>]
    /\ ServerInit

\* one call process_command(g_hash_table, line)
CommandCall(L) ==
    \E line \in L :
      \E alloc \in CommandAllocsAsked(HT, line) :
        \E r \in {process_command(HT, line, alloc)} :
          /\ Store(r.ht)
          /\ live' = LiveAfter(r)
          /\ inserted' = InsertedAfter(r)
          /\ linked' = LinkedAfter(HT, r)
          /\ last' = CommandRec(line, r, alloc)
          /\ UNCHANGED <<char_signed, serverVars>>

\* a client that sends the lines of LinePool in any order
Command == CommandCall(Lines)

NextCommand == Command

SpecCommand == InitMain /\ [][NextCommand]_vars

\* ---------------------------------------------------------------------------
\* The interpreter driven by a client that fills the store: it sets
\* FillKey(1), FillKey(2), ... in turn, may delete the key it set last, and
\* sends the other commands at any time
\* ---------------------------------------------------------------------------
\* "SET <key> <value>", "GET <key>", "DEL <key>"
SetLine(key, value) == CmdSET \o <<32>> \o key \o <<32>> \o value

GetLine(key) == CmdGET \o <<32>> \o key

DelLine(key) == CmdDEL \o <<32>> \o key

\* the lines that do not depend on the filling: a set of the first key
\* (an update once it is stored), reads, a DEL of a key never set, and the
\* lines without a store call
FillQueries ==
    {SetLine(FillKey(1), <<118>>), GetLine(FillKey(1)),
     DelLine(FillKey(0)), CmdKEYS, CmdSTATS, CmdPING, CmdQUIT,
     <<32, 9, 10>>, <<70, 79, 79>>, CmdSET, CmdGET, CmdDEL}

FillSet ==
    /\ num_entries < MaxFill
    /\ CommandCall({SetLine(FillKey(num_entries + 1), <<118>>)})

FillDel ==
    /\ num_entries > 0
    /\ CommandCall({DelLine(FillKey(num_entries))})

FillQuery == CommandCall(FillQueries)

NextFill == FillSet \/ FillDel \/ FillQuery

SpecFill == InitMain /\ [][NextFill]_vars

\* ---------------------------------------------------------------------------
\* The interpreter driven by a client that sets keys of MAX_KEY_SIZE bytes,
\* BigKey(1), BigKey(2), ... in turn, may delete the key it set last, and
\* asks for the keys and the statistics
\* ---------------------------------------------------------------------------
BigSet ==
    /\ num_entries < MaxBig
    /\ CommandCall({SetLine(BigKey(num_entries + 1), <<118>>)})

BigDel ==
    /\ num_entries > 0
    /\ CommandCall({DelLine(BigKey(num_entries))})

BigQuery == CommandCall({CmdKEYS, CmdSTATS})

NextBig == BigSet \/ BigDel \/ BigQuery

SpecBig == InitMain /\ [][NextBig]_vars

\* ---------------------------------------------------------------------------
\* hash_djb2 applied to keys over a few byte values, among them bytes of
\* 128 and more
\* ---------------------------------------------------------------------------
\* 'a', 0x80, 0xE2, 0xFF
HashBytes == {97, 128, 226, 255}

RECURSIVE StringsUpTo(_)
StringsUpTo(n) ==
    IF n = 0 THEN {<<>>}
    ELSE LET shorter == StringsUpTo(n - 1)
         IN  shorter \cup {Append(s, b) : s \in shorter, b \in HashBytes}

HashKeys == StringsUpTo(MaxHashLen)

\* the bucket counts the index is taken for: the initial one and the one
\* after three doublings
HashBucketCounts == {INITIAL_BUCKETS, 8 * INITIAL_BUCKETS}

InitHash ==
    /\ char_signed \in BOOLEAN
    /\ LET ht == ht_create(INITIAL_BUCKETS)
       IN  /\ buckets = ht.buckets
           /\ num_buckets = ht.num_buckets
           /\ num_entries = ht.num_entries
           /\ memory_used = ht.memory_used
    /\ live = {}
    /\ \E key \in HashKeys : last = [op |-> "key", key |-> key]
    /\ ObserversInit
    /\ ServerInit

\* hash_djb2(key) and the index `hash % num_buckets' of ht_set, ht_get,
\* ht_delete and ht_resize
HashCall ==
    /\ last.op = "key"
    /\ last' = [op |-> "hash_djb2", key |-> last.key,
                hash |-> hash_djb2(last.key, char_signed),
                index |-> [n \in HashBucketCounts |->
                             BucketIndex(last.key, n)]]
    /\ UNCHANGED <<storeVars, char_signed, live, observerVars, serverVars>>

NextHash == HashCall

SpecHash == InitHash /\ [][NextHash]_vars

\* ---------------------------------------------------------------------------
\* The server: main, server_start, handle_client and signal_handler, with
\* clients that connect, send the lines of their script and disconnect
\* ---------------------------------------------------------------------------
\* pc is the place of the one thread of the program:
\*   "server_loop"  at `while (g_running)' of server_start
\*   "accept"       in accept()
\*   "client_loop"  at `while (g_running)' of handle_client
\*   "recv"         in recv()
\*   "cleanup"      after the accept loop of server_start
\*   "destroy"      back in main, before ht_destroy
\*   "exit"         main has returned
\*   "killed"       ended by a signal whose handler was no longer installed
\* conns[c].state is "none", "queued" (connected, waiting in the listen
\* queue), "accepted" or "closed" (closed by the server); inbound holds the
\* bytes the client sent and the server has not read, outbound the buffers
\* the server passed to send(), lines the lines the client sent, and peer
\* tells whether the client has closed ("closed") or reset ("reset") its end.

LF == 10

\* the lines the clients send, one script a client
ScriptPool ==
    << << <<83, 69, 84, 32, 97, 32, 66, 89, 69>>,     \* SET a BYE
          CmdPING >>,
       << <<71, 69, 84, 32, 97>>,                      \* GET a
          CmdQUIT >> >>

\* a client beyond the pool connects and disconnects without sending
Script(c) == IF c <= Len(ScriptPool) THEN ScriptPool[c] ELSE <<>>

\* the sizes recv() is taken to return when `inbound' is waiting: all of it,
\* its first line with the newline, or its first SplitAt bytes; never more
\* than BUFFER_SIZE - 1
SplitAt == 2

RecvSizes(inbound) ==
    LET all == Len(inbound)
        line == FirstWhere(inbound, 1, all, {LF}, TRUE)
    IN  {n \in {all, line, SplitAt} : n >= 1 /\ n <= all /\ n <= BUFFER_SIZE - 1}

\* close(client_socket) at the end of handle_client, and the return to
\* server_start
CloseClient(c, cs) ==
    /\ conns' = [cs EXCEPT ![c].state = "closed"]
    /\ client_socket' = -1
    /\ pc' = "server_loop"

\* a client connects while the socket listens
Connect ==
    \E c \in Clients :
      /\ pc \notin {"exit", "killed"}
      /\ g_server_socket = ListenFd
      /\ conns[c].state = "none"
      /\ conns' = [conns EXCEPT ![c].state = "queued"]
      /\ UNCHANGED <<storeVars, char_signed, live, last, observerVars,
                     g_running, g_server_socket, g_hash_table, pc,
                     client_socket>>

\* a client sends the next line of its script, ended by a newline
ClientSend ==
    \E c \in Clients :
      /\ pc \notin {"exit", "killed"}
      /\ conns[c].state \in {"queued", "accepted"}
      /\ conns[c].peer = "open"
      /\ Len(conns[c].lines) < Len(Script(c))
      /\ LET line == Script(c)[Len(conns[c].lines) + 1]
         IN  conns' = [conns EXCEPT ![c].inbound = @ \o line \o <<LF>>,
                                    ![c].lines = Append(@, line)]
      /\ UNCHANGED <<storeVars, char_signed, live, last, observerVars,
                     g_running, g_server_socket, g_hash_table, pc,
                     client_socket>>

\* a client closes its end
ClientClose ==
    \E c \in Clients :
      /\ pc \notin {"exit", "killed"}
      /\ conns[c].state \in {"queued", "accepted"}
      /\ conns[c].peer = "open"
      /\ conns' = [conns EXCEPT ![c].peer = "closed"]
      /\ UNCHANGED <<storeVars, char_signed, live, last, observerVars,
                     g_running, g_server_socket, g_hash_table, pc,
                     client_socket>>

\* a client resets the connection; what it sent and the server has not read
\* is dropped
ClientReset ==
    \E c \in Clients :
      /\ pc \notin {"exit", "killed"}
      /\ conns[c].state \in {"queued", "accepted"}
      /\ conns[c].peer = "open"
      /\ conns' = [conns EXCEPT ![c].peer = "reset", ![c].inbound = <<>>]
      /\ UNCHANGED <<storeVars, char_signed, live, last, observerVars,
                     g_running, g_server_socket, g_hash_table, pc,
                     client_socket>>

\* server_start: while (g_running)
ServerLoop ==
    /\ pc = "server_loop"
    /\ pc' = IF g_running THEN "accept" ELSE "cleanup"
    /\ UNCHANGED <<storeVars, char_signed, live, last, observerVars,
                   g_running, g_server_socket, g_hash_table, client_socket,
                   conns>>

\* a server that takes the next connection while it still serves one
AcceptConnWhileServing ==
    \E c \in Clients :
      /\ pc \in {"accept", "client_loop", "recv"}
      /\ g_server_socket = ListenFd
      /\ conns[c].state = "queued"
      /\ conns' = [conns EXCEPT ![c].state = "accepted"]
      /\ client_socket' = c
      /\ pc' = "client_loop"
      /\ UNCHANGED <<storeVars, char_signed, live, last, observerVars,
                     g_running, g_server_socket, g_hash_table>>

\* accept() returns a connection and handle_client is called with it
AcceptConn ==
    \E c \in Clients :
      /\ pc = "accept"
      /\ g_server_socket = ListenFd
      /\ conns[c].state = "queued"
      /\ conns' = [conns EXCEPT ![c].state = "accepted"]
      /\ client_socket' = c
      /\ pc' = "client_loop"
      /\ UNCHANGED <<storeVars, char_signed, live, last, observerVars,
                     g_running, g_server_socket, g_hash_table>>

\* accept() fails because signal_handler interrupted it or closed the
\* socket: errno == EINTR || !g_running, and the loop is left
AcceptFails ==
    /\ pc = "accept"
    /\ ~g_running
    /\ pc' = "cleanup"
    /\ UNCHANGED <<storeVars, char_signed, live, last, observerVars,
                   g_running, g_server_socket, g_hash_table, client_socket,
                   conns>>

\* handle_client: while (g_running), and close(client_socket) after it
ClientLoop ==
    /\ pc = "client_loop"
    /\ IF g_running
       THEN /\ pc' = "recv"
            /\ UNCHANGED <<client_socket, conns>>
       ELSE CloseClient(client_socket, conns)
    /\ UNCHANGED <<storeVars, char_signed, live, last, observerVars,
                   g_running, g_server_socket, g_hash_table>>

\* recv() returns bytes: they are interpreted as one command and the response
\* is sent with a newline; the response "BYE" ends the connection
RecvData ==
    /\ pc = "recv"
    /\ \E n \in RecvSizes(conns[client_socket].inbound) :
         \E r \in {process_command(HT, SubSeq(conns[client_socket].inbound, 1, n),
                                   CommandAllocsOk)} :
           \E cs \in {[conns EXCEPT
                         ![client_socket].inbound = SubSeq(@, n + 1, Len(@)),
                         ![client_socket].outbound =
                             Append(@, r.response \o <<LF>>)]} :
             /\ Store(r.ht)
             /\ live' = LiveAfter(r)
             /\ inserted' = InsertedAfter(r)
             /\ linked' = LinkedAfter(HT, r)
             /\ IF r.response = ReplyBye
                THEN CloseClient(client_socket, cs)
                ELSE /\ conns' = cs
                     /\ pc' = "client_loop"
                     /\ UNCHANGED client_socket
    /\ UNCHANGED <<char_signed, last, g_running, g_server_socket, g_hash_table>>

\* recv() returns 0: the client has closed its end and all it sent was read
RecvEof ==
    /\ pc = "recv"
    /\ conns[client_socket].peer = "closed"
    /\ conns[client_socket].inbound = <<>>
    /\ CloseClient(client_socket, conns)
    /\ UNCHANGED <<storeVars, char_signed, live, last, observerVars,
                   g_running, g_server_socket, g_hash_table>>

\* recv() fails with an error other than EINTR
RecvError ==
    /\ pc = "recv"
    /\ conns[client_socket].peer = "reset"
    /\ CloseClient(client_socket, conns)
    /\ UNCHANGED <<storeVars, char_signed, live, last, observerVars,
                   g_running, g_server_socket, g_hash_table>>

\* recv() fails with EINTR: signal_handler ran while it waited (where
\* signal() installs a restarting handler recv() goes on waiting instead)
RecvEINTR ==
    /\ pc = "recv"
    /\ ~g_running
    /\ pc' = "client_loop"
    /\ UNCHANGED <<storeVars, char_signed, live, last, observerVars,
                   g_running, g_server_socket, g_hash_table, client_socket,
                   conns>>

\* SIGINT or SIGTERM arrives and signal_handler runs
Signal ==
    /\ pc \notin {"exit", "killed"}
    /\ g_running
    /\ g_running' = FALSE
    /\ g_server_socket' = -1
    /\ UNCHANGED <<storeVars, char_signed, live, last, observerVars,
                   g_hash_table, pc, client_socket, conns>>

\* a further signal where signal() installed a one-shot handler: the default
\* action ends the process (where the handler stays installed it runs again
\* and changes nothing)
Killed ==
    /\ pc \notin {"exit", "killed"}
    /\ ~g_running
    /\ pc' = "killed"
    /\ UNCHANGED <<storeVars, char_signed, live, last, observerVars,
                   g_running, g_server_socket, g_hash_table, client_socket,
                   conns>>

\* server_start after the loop: the socket is closed if it still is open
Cleanup ==
    /\ pc = "cleanup"
    /\ g_server_socket' = -1
    /\ pc' = "destroy"
    /\ UNCHANGED <<storeVars, char_signed, live, last, observerVars,
                   g_running, g_hash_table, client_socket, conns>>

\* main: ht_destroy(g_hash_table); g_hash_table = NULL
Destroy ==
    /\ pc = "destroy"
    /\ buckets' = <<>>
    /\ num_buckets' = 0
    /\ num_entries' = 0
    /\ memory_used' = 0
    /\ g_hash_table' = "NULL"
    /\ pc' = "exit"
    /\ UNCHANGED <<char_signed, live, last, observerVars, g_running,
                   g_server_socket, client_socket, conns>>

NextServer ==
    \/ Connect
    \/ ClientSend
    \/ ClientClose
    \/ ClientReset
    \/ ServerLoop
    \/ AcceptConn
    \/ AcceptFails
    \/ ClientLoop
    \/ RecvData
    \/ RecvEof
    \/ RecvError
    \/ RecvEINTR
    \/ Signal
    \/ Killed
    \/ Cleanup
    \/ Destroy

SpecServer == InitMain /\ [][NextServer]_vars

\* ---------------------------------------------------------------------------
\* Properties
\* ---------------------------------------------------------------------------
\* the accounted size of every node of a sequence of nodes, summed from the
\* bytes the node holds (not from its cached lengths)
RECURSIVE SumAccounted(_, _)
SumAccounted(nodes, i) ==
    IF i > Len(nodes) THEN 0
    ELSE SizeofHashEntry + Len(nodes[i].key) + 1 + Len(nodes[i].value) + 1
         + SumAccounted(nodes, i + 1)

NodeKeys(ht) ==
    LET nodes == AllNodes(ht) IN {nodes[i].key : i \in 1..Len(nodes)}

NodeSet(ht) ==
    LET nodes == AllNodes(ht) IN {nodes[i] : i \in 1..Len(nodes)}

\* the values stored under key anywhere in the table, whatever its bucket
StoredValues(ht, key) ==
    LET nodes == AllNodes(ht)
    IN  {nodes[i].value : i \in {j \in 1..Len(nodes) : nodes[j].key = key}}

\* C1: memory_used is the table header plus num_buckets pointer slots plus
\* the accounted size of every live entry, in every reachable state; a fresh
\* store reports the header and the bucket array only.
MemoryAccounted ==
    /\ memory_used = SizeofHashTable + num_buckets * SizeofPtr
                     + SumAccounted(AllNodes(HT), 1)
    /\ last.op = "create" =>
         memory_used = SizeofHashTable + Len(buckets) * SizeofPtr

\* a value was replaced by one of another length in a call that resized
MemoryAccountedWitness ==
    /\ last.op = "set" /\ last.ret = 0 /\ last.found /\ last.resize = "ok"
    /\ num_entries >= 2
    /\ \E v \in StoredValues(HT, last.key) : Len(v) = 2

\* C2: num_entries is the number of nodes reachable from the buckets, which
\* is the number of keys set and not deleted since.
CountIsLiveKeys ==
    /\ num_entries = Len(AllNodes(HT))
    /\ num_entries = Cardinality(live)
    /\ ht_stats(HT).num_keys = Cardinality(live)

\* a key was deleted from a store that still holds two others
CountIsLiveKeysWitness ==
    last.op = "delete" /\ last.ret = 0 /\ num_entries = 2

\* C3: no two nodes of the table carry the same key.
NoDuplicateKeys ==
    LET nodes == AllNodes(HT)
    IN  \A i, j \in 1..Len(nodes) : i # j => nodes[i].key # nodes[j].key

\* a set that went on into the old table after its resize failed, updating a
\* key that is not at the head of its chain
NoDuplicateKeysWitness ==
    /\ last.op = "set" /\ last.ret = 0 /\ last.resize = "failed" /\ last.found
    /\ \E b \in 1..Len(buckets) :
         /\ Len(buckets[b]) >= 2
         /\ buckets[b][Len(buckets[b])].key = last.key

\* C4: a successful set(k, v) is followed by get(k) = v.
SetThenGet ==
    (last.op = "set" /\ last.ret = 0) => ht_get(HT, last.key) = last.value

\* a key already present was given another value by a set that resized
SetThenGetWitness ==
    /\ last.op = "set" /\ last.ret = 0 /\ last.found /\ last.resize = "ok"
    /\ num_entries = 3

\* C5: after delete(k), get(k) is absent and a second delete(k) returns
\* not-found and changes nothing; every other key keeps its value.
DeleteRemovesOnlyKey ==
    /\ [](last.op = "delete" =>
            /\ ht_get(HT, last.key) = NULL
            /\ last.key \notin NodeKeys(HT)
            /\ ht_delete(HT, last.key).ret = -1
            /\ ht_delete(HT, last.key).ht = HT)
    /\ [][last'.op = "delete" =>
            \A k \in AllKeys \ {last'.key} :
                /\ ht_get(HTNext, k) = ht_get(HT, k)
                /\ StoredValues(HTNext, k) = StoredValues(HT, k)]_vars

\* a node was unlinked from the middle of its chain
DeleteRemovesOnlyKeyWitness ==
    last.op = "delete" /\ last.ret = 0 /\ last.pos = "middle"

\* the value stored under a key that is present
OldValue(ht, key) == CHOOSE v \in StoredValues(ht, key) : TRUE

\* the chains of the next state are those of this one, node for node, but for
\* the value of the node that carries key, which is value
SameChainsButValue(key, value) ==
    /\ Len(buckets') = Len(buckets)
    /\ \A b \in 1..Len(buckets) :
         /\ Len(buckets'[b]) = Len(buckets[b])
         /\ \A i \in 1..Len(buckets[b]) :
              IF buckets[b][i].key = key
              THEN buckets'[b][i] = [buckets[b][i] EXCEPT !.value = value,
                                                          !.value_len = Len(value)]
              ELSE buckets'[b][i] = buckets[b][i]

\* the chains of the next state are those of this one with one new node for
\* (key, value) linked at the head of one of them
SameChainsButNewHead(key, value) ==
    /\ Len(buckets') = Len(buckets)
    /\ \E b0 \in 1..Len(buckets) :
         /\ buckets'[b0] = <<[key |-> key, value |-> value, key_len |-> Len(key),
                              value_len |-> Len(value)]>> \o buckets[b0]
         /\ \A b \in 1..Len(buckets) : b # b0 => buckets'[b] = buckets[b]

ResizeOnCrossingInsert ==
    [][(/\ last'.op = "set"
        /\ num_entries' = num_entries + 1
        /\ 4 * num_entries <= 3 * num_buckets
        /\ 4 * (num_entries + 1) > 3 * num_buckets) =>
         num_buckets' = 2 * num_buckets]_vars

\* C7 amended: a set call doubles the bucket count, once, exactly when
\* num_entries / num_buckets is above 0.75 as the call starts, the sizes are
\* within the limits and the bucket allocation succeeds; every other set call
\* leaves the bucket count as it is.
ResizeOnLoadAtEntry ==
    [][last'.op = "set" =>
         IF /\ 4 * num_entries > 3 * num_buckets
            /\ Len(last'.key) <= 256 /\ Len(last'.value) <= 4096
            /\ last'.resize # "failed"
         THEN num_buckets' = 2 * num_buckets /\ Len(buckets') = 2 * Len(buckets)
         ELSE num_buckets' = num_buckets /\ Len(buckets') = Len(buckets)]_vars

\* a new key was inserted by a call that doubled the bucket count first, the
\* load factor having been left above 0.75 by an earlier insertion
ResizeOnLoadAtEntryWitness ==
    /\ last.op = "set" /\ last.ret = 0 /\ ~last.found /\ last.resize = "ok"
    /\ num_entries = 3 /\ num_buckets = 4

\* C8: a successful resize doubles the bucket count and keeps the nodes, the
\* entry count and what get returns for every key; the set that resized
\* leaves every key but its own with its value.
ResizePreservesContents ==
    [][(last'.op = "set" /\ last'.resize = "ok") =>
         LET r == ht_resize(HT, TRUE).ht
         IN  /\ r.num_buckets = 2 * num_buckets
             /\ Len(r.buckets) = 2 * Len(buckets)
             /\ r.num_entries = num_entries
             /\ Len(AllNodes(r)) = Len(AllNodes(HT))
             /\ NodeSet(r) = NodeSet(HT)
             /\ \A k \in AllKeys : ht_get(r, k) = ht_get(HT, k)
             /\ num_buckets' = 2 * num_buckets
             /\ \A k \in AllKeys \ {last'.key} :
                    ht_get(HTNext, k) = ht_get(HT, k)]_vars

\* a resize moved three entries, not all into the same bucket
ResizePreservesContentsWitness ==
    /\ last.op = "set" /\ last.resize = "ok" /\ num_entries = 3
    /\ Cardinality({b \in 1..Len(buckets) : buckets[b] # <<>>}) >= 2

\* C9: a set with a key of 257 bytes or a value of 4097 bytes fails and
\* changes nothing; a set with a key of up to 256 bytes and a value of up to
\* 4096 bytes whose allocations succeed returns 0 and stores the value.
SizeLimits ==
    [][last'.op = "set" =>
         /\ (Len(last'.key) > 256 \/ Len(last'.value) > 4096) =>
              /\ last'.ret = -1
              /\ UNCHANGED <<buckets, num_buckets, num_entries, memory_used,
                             live>>
         /\ (Len(last'.key) <= 256 /\ Len(last'.value) <= 4096
             /\ ~last'.nomem) =>
              /\ last'.ret = 0
              /\ ht_get(HTNext, last'.key) = last'.value]_vars

\* a key of 257 bytes was rejected at a load factor above 0.75 by a store
\* that had accepted a key of 256 bytes with a value of 4096 bytes
SizeLimitsWitness ==
    /\ last.op = "set" /\ last.ret = -1 /\ Len(last.key) = 257
    /\ 4 * num_entries > 3 * num_buckets
    /\ \E n \in NodeSet(HT) : Len(n.key) = 256 /\ Len(n.value) = 4096

\* C10: when the bucket allocation of a resize fails, the resize leaves the
\* table as it was and the set goes on into the old table: it inserts at the
\* head of a chain or updates in place, returns 0 if its own allocations
\* succeed, and the accounting, count and uniqueness invariants still hold.
FailedResizeKeepsTable ==
    [][(last'.op = "set" /\ last'.resize = "failed") =>
         /\ ht_resize(HT, FALSE) = [ret |-> -1, ht |-> HT]
         /\ num_buckets' = num_buckets
         /\ ~last'.nomem => last'.ret = 0
         /\ IF last'.ret # 0
            THEN UNCHANGED <<buckets, num_entries, memory_used>>
            ELSE IF last'.key \in NodeKeys(HT)
            THEN /\ SameChainsButValue(last'.key, last'.value)
                 /\ num_entries' = num_entries
                 /\ memory_used' = memory_used + Len(last'.value)
                                   - Len(OldValue(HT, last'.key))
            ELSE /\ SameChainsButNewHead(last'.key, last'.value)
                 /\ num_entries' = num_entries + 1
                 /\ memory_used' = memory_used + SizeofHashEntry
                                   + Len(last'.key) + 1 + Len(last'.value) + 1
         /\ last'.ret = 0 => ht_get(HTNext, last'.key) = last'.value
         /\ MemoryAccounted' /\ CountIsLiveKeys' /\ NoDuplicateKeys']_vars

\* a new key was inserted into the old table after the resize failed
FailedResizeKeepsTableWitness ==
    /\ last.op = "set" /\ last.ret = 0 /\ ~last.found /\ last.resize = "failed"
    /\ num_entries = 3

IsPowerOfTwo(n) == \E e \in 0..20 : n = 2 ^ e

\* C11: the bucket array has 64 slots after creation, its size is a power
\* of two in every reachable state, and a step that changes it doubles it.
BucketsPowerOfTwo ==
    /\ num_buckets = 64
    /\ [](IsPowerOfTwo(num_buckets) /\ Len(buckets) = num_buckets)
    /\ [][num_buckets' # num_buckets => num_buckets' = 2 * num_buckets]_vars

\* the 50th key has been set into a table that held 49 and has doubled
BucketsPowerOfTwoWitness ==
    /\ last.op = "command"
    /\ last.fn = "ht_set"
    /\ last.resize = "ok"
    /\ num_buckets = 128
    /\ num_entries = 50

\* the line read as SET, whitespace run, key, whitespace run, rest
\* (whitespace as isspace has it): the positions where the key starts, where
\* it ends and where the rest starts
FormSetKeyRest(line) ==
    LET p1 == SkipNotIn(line, 1, Whitespace)
        p2 == SkipIn(line, p1, Whitespace)
        p3 == SkipNotIn(line, p2, Whitespace)
        p4 == SkipIn(line, p3, Whitespace)
    IN  [is |-> /\ p1 = 4
                /\ [j \in 1..3 |-> toupper(line[j])] = CmdSET
                /\ p2 > p1 /\ p3 > p2 /\ p4 > p3 /\ p4 <= Len(line),
         key |-> SubSeq(line, p2, p3 - 1),
         rest |-> SubSeq(line, p4, Len(line))]

\* C12: after a line SET, whitespace, key, whitespace, rest answered OK, the
\* value stored under key, and the reply to GET key, is rest: all of the
\* line after the key and its whitespace run, verbatim.
SetStoresRestOfLine ==
    (last.op = "command" /\ FormSetKeyRest(last.line).is
     /\ last.response = ReplyOK)
    => LET f == FormSetKeyRest(last.line)
       IN  /\ ht_get(HT, f.key) = f.rest
           /\ process_command(HT, GetLine(f.key), CommandAllocsOk).response
              = f.rest

SecondToken(line) ==
    LET t == trim_whitespace(line)
        p2 == SkipIn(t, SkipNotIn(t, 1, Whitespace), Whitespace)
        p3 == SkipNotIn(t, p2, Whitespace)
    IN  [token |-> SubSeq(t, p2, p3 - 1),
         after |-> SubSeq(t, SkipIn(t, p3, Whitespace), Len(t))]

\* C20: on a SET line answered OK the key passed to the store is the second
\* whitespace-delimited token of the line and the value passed is the text
\* after that token's trailing whitespace.
TokenizerAndRescanAgree ==
    (last.op = "command" /\ last.fn = "ht_set" /\ last.response = ReplyOK)
    => /\ last.key = SecondToken(last.line).token
       /\ last.value = SecondToken(last.line).after

\* the command `last' records is a SET or a DEL that was answered OK
SuccessfulSetOrDel(rec) ==
    /\ rec.fn \in {"ht_set", "ht_delete"}
    /\ rec.response = ReplyOK

\* C14 as claimed: every command other than a successful SET or DEL leaves
\* the buckets and their chains, num_buckets, num_entries and memory_used
\* as they were.
OtherCommandsChangeNothing ==
    [][(last'.op = "command" /\ ~SuccessfulSetOrDel(last'))
       => UNCHANGED <<buckets, num_buckets, num_entries, memory_used>>]_vars

\* C14 amended: every command other than a successful SET or DEL leaves the
\* store as it was, except a SET that fails on an allocation after it has
\* doubled the bucket array (load above 0.75 at its start): that one keeps
\* every entry with its key and value and num_entries, and adds the new
\* slots to memory_used.
OtherCommandsKeepContents ==
    [][(last'.op = "command" /\ ~SuccessfulSetOrDel(last'))
       => \/ UNCHANGED <<buckets, num_buckets, num_entries, memory_used>>
          \/ /\ last'.fn = "ht_set"
             /\ last'.response = ErrSetFailed
             /\ LoadFactorExceeded(HT)
             /\ num_buckets' = 2 * num_buckets
             /\ Len(buckets') = num_buckets'
             /\ NodeSet(HTNext) = NodeSet(HT)
             /\ Len(AllNodes(HTNext)) = Len(AllNodes(HT))
             /\ num_entries' = num_entries
             /\ memory_used' = memory_used + num_buckets * SizeofPtr]_vars

\* a SET was answered with the failure after its resize went through
OtherCommandsKeepContentsWitness ==
    /\ last.op = "command"
    /\ last.fn = "ht_set"
    /\ last.response = ErrSetFailed
    /\ last.resize = "ok"
    /\ num_buckets = 128
    /\ num_entries = 49

\* the reply read as a bracketed, comma-separated list of quoted items (no
\* item holds a quote): the items from position pos on, appended to items;
\* <<NULL>> when the text is not such a list
RECURSIVE ListItems(_, _, _)
ListItems(reply, pos, items) ==
    LET close == FirstWhere(reply, pos + 1, Len(reply), {34}, TRUE)
        item == SubSeq(reply, pos + 1, close - 1)
    IN  IF pos > Len(reply) \/ reply[pos] # 34 \/ close >= Len(reply)
        THEN <<NULL>>
        ELSE IF reply[close + 1] = 93 /\ close + 1 = Len(reply)
        THEN Append(items, item)
        ELSE IF reply[close + 1] = 44
        THEN ListItems(reply, close + 2, Append(items, item))
        ELSE <<NULL>>

ReplyItems(reply) ==
    IF Len(reply) < 2 \/ reply[1] # 91 THEN <<NULL>>
    ELSE IF reply = <<91, 93>> THEN <<>>
    ELSE ListItems(reply, 2, <<>>)

\* the reply is a list whose items are the keys of S, each once
ListsExactly(reply, S) ==
    LET items == ReplyItems(reply)
    IN  /\ items # <<NULL>>
        /\ Len(items) = Cardinality(S)
        /\ {items[i] : i \in 1..Len(items)} = S

Reverse(s) == [i \in 1..Len(s) |-> s[Len(s) + 1 - i]]

\* the keys of the buckets lo..hi (numbered from 1) in bucket order, the
\* keys of one bucket from the one inserted last to the one inserted first
RECURSIVE InsertionOrder(_, _)
InsertionOrder(lo, hi) ==
    IF lo > hi THEN <<>>
    ELSE IF lo = hi
    THEN Reverse(SelectSeq(inserted,
                 LAMBDA k : BucketIndex(k, num_buckets) + 1 = lo))
    ELSE LET mid == (lo + hi) \div 2
         IN  InsertionOrder(lo, mid) \o InsertionOrder(mid + 1, hi)

\* the same with the keys of one bucket from the one linked last to the one
\* linked first
RECURSIVE LinkOrder(_, _)
LinkOrder(lo, hi) ==
    IF lo > hi THEN <<>>
    ELSE IF lo = hi THEN Reverse(linked[lo])
    ELSE LET mid == (lo + hi) \div 2
         IN  LinkOrder(lo, mid) \o LinkOrder(mid + 1, hi)

\* C16 as claimed: a KEYS reply lists the keys bucket by bucket in index
\* order and, within a bucket, the key inserted into the store last comes
\* first, also after a resize.
KeysNewestInsertedFirst ==
    (last.op = "command" /\ last.fn = "keys" /\ last.alloc.keys_fail_at = 0)
    => ReplyItems(last.response) = InsertionOrder(1, num_buckets)

\* C16 amended: a KEYS reply lists the keys bucket by bucket in index order
\* and, within a bucket, the key linked into that bucket last comes first.
\* A set links a new key at the head of its chain; a resize relinks every
\* entry at the head of its new chain in enumeration order.
KeysLastLinkedFirst ==
    (last.op = "command" /\ last.fn = "keys" /\ last.alloc.keys_fail_at = 0)
    => ReplyItems(last.response) = LinkOrder(1, num_buckets)

\* a listing after the resize in which a bucket holds two keys, the older
\* one first
KeysLastLinkedFirstWitness ==
    /\ last.op = "command"
    /\ last.fn = "keys"
    /\ last.alloc.keys_fail_at = 0
    /\ num_buckets = 128
    /\ \E b \in 1..num_buckets :
         /\ Len(linked[b]) >= 2
         /\ Reverse(linked[b]) # Reverse(SelectSeq(inserted,
                 LAMBDA k : BucketIndex(k, num_buckets) + 1 = b))

\* DJB2 over the bytes of the key taken as 0..255, modulo 2^64
RECURSIVE Djb2OverBytes(_, _, _)
Djb2OverBytes(key, i, hash) ==
    IF i > Len(key) THEN hash
    ELSE Djb2OverBytes(key, i + 1, MulAdd33(hash, key[i]))

\* C17: the hash of a key is DJB2 over its bytes taken as 0..255, from 5381
\* in 64-bit unsigned arithmetic, and the bucket index is that hash modulo
\* the bucket count, also for keys with bytes of 128 and more.
HashIsDjb2OverBytes ==
    last.op = "hash_djb2"
    => LET hash == Djb2OverBytes(last.key, 1, U64FromInt(5381))
       IN  /\ last.hash = hash
           /\ \A n \in HashBucketCounts : last.index[n] = Mod64(hash, n)

Newlines(s) == Cardinality({i \in 1..Len(s) : s[i] = LF})

\* C18: every line a client sends is interpreted as a command of its own and
\* answered by one reply of one line, however recv() groups the bytes: once
\* the server has read all a client sent on an open connection, it has sent
\* as many replies as the client sent lines, each with the one newline that
\* ends it.
OneReplyPerLine ==
    \A c \in Clients :
      (/\ conns[c].state = "accepted"
       /\ conns[c].peer = "open"
       /\ conns[c].inbound = <<>>)
      => /\ Len(conns[c].outbound) = Len(conns[c].lines)
         /\ \A i \in 1..Len(conns[c].outbound) :
              Newlines(conns[c].outbound[i]) = 1

Serving == {c \in Clients : conns[c].state = "accepted"}

\* the steps that run an operation of the store: a command is interpreted
\* and answered
StoreOperation ==
    \E c \in Clients : Len(conns'[c].outbound) > Len(conns[c].outbound)

\* C19: connections are served strictly one after another: at most one is
\* accepted and not yet closed, it is the one handle_client works on, the
\* next is accepted only when none is being served, and an operation of the
\* store runs only for that connection while the table exists, never during
\* or after ht_destroy.
ServedOneAfterAnother ==
    /\ [](/\ Cardinality(Serving) <= 1
          /\ \A c \in Serving :
               /\ client_socket = c
               /\ pc \in {"client_loop", "recv", "killed"}
          /\ pc \in {"destroy", "exit"} => Serving = {}
          /\ g_hash_table = "NULL" <=> pc = "exit")
    /\ [][/\ StoreOperation
             => /\ pc = "recv"
                /\ g_hash_table = "table"
                /\ g_hash_table' = "table"
                /\ \A c \in Clients :
                     conns'[c].outbound # conns[c].outbound => Serving = {c}
          /\ Serving' # Serving /\ Serving' # {} => Serving = {}]_vars

ServedOneAfterAnotherWitness ==
    /\ pc = "exit"
    /\ g_hash_table = "NULL"
    /\ \A c \in 1..2 :
         /\ conns[c].state = "closed"
         /\ Len(conns[c].outbound) >= 1
    /\ conns[2].outbound[Len(conns[2].outbound)] = ReplyBye \o <<LF>>

\* the line is answered by the SET branch: its first token reads SET
IsSetLine(line) ==
    LET tokens == UpperFirst(parse_command(trim_whitespace(line), MaxTokens))
    IN  Len(tokens) > 0 /\ tokens[1] = CmdSET

\* the trimmed line has no second word (the key) or no third word (the
\* value), words being separated by whitespace as isspace has it
LacksKeyOrValue(line) ==
    SecondToken(line).token = <<>> \/ SecondToken(line).after = <<>>

\* C21: the reply to a SET line is OK, ERROR: SET requires key and value or
\* ERROR: Failed to set value, and a SET line without a key or without a
\* value is answered ERROR: SET requires key and value.
SetRepliesAreThree ==
    (last.op = "command" /\ IsSetLine(last.line))
    => /\ last.response \in {ReplyOK, ErrSetArgs, ErrSetFailed}
       /\ LacksKeyOrValue(last.line) => last.response = ErrSetArgs

\* C22: a set that returns failure, whether for a size limit or for a failed
\* allocation of the node, the key or the replacement value, leaves the
\* contents as they were: get returns the same for every key, num_entries is
\* unchanged, every entry is what it was, and the memory accounting holds.
FailedSetKeepsContents ==
    [][(last'.op = "set" /\ last'.ret = -1)
       => /\ \A k \in Keys \cup BoundaryKeys : ht_get(HTNext, k) = ht_get(HT, k)
          /\ num_entries' = num_entries
          /\ NodeSet(HTNext) = NodeSet(HT)
          /\ MemoryAccounted']_vars

\* the replacement value of a present key could not be allocated, in a call
\* that had resized the table
FailedSetKeepsContentsWitness ==
    /\ last.op = "set" /\ last.ret = -1 /\ last.found /\ last.nomem
    /\ last.resize = "ok"
    /\ num_entries >= 2

\* the buffer is answered by the QUIT branch: its first token reads QUIT
IsQuitRequest(buffer) ==
    LET tokens == UpperFirst(parse_command(trim_whitespace(buffer), MaxTokens))
    IN  Len(tokens) > 0 /\ tokens[1] = CmdQUIT

\* the bytes of client c a step has read
RequestRead(c) ==
    SubSeq(conns[c].inbound, 1,
           Len(conns[c].inbound) - Len(conns'[c].inbound))

\* C23: the server closes a connection after sending a reply only when the
\* request it answered was QUIT: no SET, GET, DEL, STATS, KEYS, PING or
\* invalid command closes the connection, whatever the store holds.
ClosesOnlyOnQuit ==
    [][\A c \in Clients :
         (/\ conns[c].state = "accepted"
          /\ conns'[c].state = "closed"
          /\ Len(conns'[c].outbound) > Len(conns[c].outbound))
         => IsQuitRequest(RequestRead(c))]_vars

\* C24: in every reachable state every entry is linked in one chain only,
\* the chain of the bucket numbered hash(key) mod num_buckets, so that a get
\* or a delete, which scan that bucket only, find every live key.
EntriesInOwnBucket ==
    /\ \A b \in 1..Len(buckets) :
         \A p \in 1..Len(buckets[b]) :
           /\ Mod64(hash_djb2(buckets[b][p].key, char_signed), num_buckets)
              = b - 1
           /\ \A c \in 1..Len(buckets) :
                \A q \in 1..Len(buckets[c]) :
                  buckets[c][q].key = buckets[b][p].key => (c = b /\ q = p)
    /\ \A k \in live :
         /\ ht_get(HT, k) # NULL
         /\ ht_delete(HT, k).ret = 0

\* a resize has relinked the entries and two of them share a chain
EntriesInOwnBucketWitness ==
    /\ last.op = "set" /\ last.resize = "ok"
    /\ num_buckets >= 4
    /\ \E b \in 1..Len(buckets) : Len(buckets[b]) >= 2

\* C25: while the KEYS reply is built no byte is stored at or past the end
\* of the buffer: with keys of at most 256 bytes the capacity left before
\* each key and before the closing bracket and the terminator is enough, the
\* buffer starting at 4096 bytes and being doubled at most once a key.
KeysStaysInBuffer ==
    (last.op = "command" /\ last.fn = "keys")
    => /\ ~last.overrun
       /\ last.reallocs <= Cardinality(live)
       /\ \A k \in live : Len(k) <= MAX_KEY_SIZE
       /\ Len(last.response) + 1 <= KeysBufferSize * (2 ^ last.reallocs)

\* the sixteenth key of 256 bytes did not fit the 4096 bytes and the buffer
\* was doubled for it
KeysStaysInBufferWitness ==
    /\ last.op = "command"
    /\ last.fn = "keys"
    /\ last.response # ErrMemory
    /\ last.reallocs = 1
    /\ Cardinality(live) = 16
    /\ \A k \in live : Len(k) = MAX_KEY_SIZE

====
